---- MODULE Spec2Model ----
(***************************************************************************)
(* Model of local_whisper_app.py (WhisperQueueApp): the file queue, the    *)
(* start/stop/clear handlers of the controlling (Tk event-loop) thread and *)
(* the worker thread running process_queue.                                *)
(***************************************************************************)
EXTENDS Naturals, Sequences, FiniteSets, TLC

\* ------------------------------------------------------------------ bounds
\* number of distinct media paths the user can offer
NumPaths == 2
\* worker threads that can be alive at once (a finished run's thread may
\* still be inside reset_ui when the next run starts)
MaxWorkers == 2
\* files handed over by one file-dialog selection
MaxFiles == 2
\* largest hour value given to format_timestamp
MaxHours == 100
\* longest segment text, in characters
MaxText == 4
\* most segments in one transcription result
MaxSegs == 2
\* longest file name, in characters
MaxName == 3

Paths == 1..NumPaths
Workers == 1..MaxWorkers

\* two of the names offered by the model combobox
ModelNames == {"tiny", "base"}
\* the values of device_map
Devices == {"cuda", "cpu"}
\* self.model = None / self.current_model_name = None
NoModel == [name |-> "None", device |-> "None"]
NoName == "None"

\* outcomes of whisper.load_model: success, an exception whose message
\* contains "CUDA", any other exception
LoadResults == {"ok", "cuda_err", "other_err"}
\* outcomes of the try block of one item: everything succeeded, transcribe
\* raised, transcribe returned and an output write raised
ItemResults == {"ok", "transcribe_err", "write_err"}

VARIABLES
    queue,              \* self.queue: sequence of items, with the tree row's status column
    is_processing,      \* self.is_processing
    stop_event,         \* self.stop_event
    model,              \* self.model
    current_model_name, \* self.current_model_name
    model_var,          \* self.model_var
    device_var,         \* self.device_var / self.device_combo.get()
    btn_start,          \* state of self.btn_start
    btn_stop,           \* state of self.btn_stop
    model_combo,        \* state of self.model_combo
    device_combo,       \* state of self.device_combo
    whisper,            \* whether the whisper/torch import succeeded
    has_gpu,            \* self.has_gpu
    loaded_names,       \* history: names a load_model call has returned for
    wk,                 \* worker threads: position in process_queue and locals
    export,             \* self.export_srt, self.export_vtt, self.export_txt
    ts,                 \* a call of format_timestamp: arguments and returned string
    sub,                \* a call of write_srt and write_vtt: segments and file contents
    naming              \* two source paths, the output options and the output bases derived

vars == <<queue, is_processing, stop_event, model, current_model_name, model_var,
          device_var, btn_start, btn_stop, model_combo, device_combo, whisper,
          has_gpu, loaded_names, wk, export, ts, sub, naming>>

ui == <<btn_start, btn_stop, model_combo, device_combo>>
settings == <<model_var, device_var>>
env == <<whisper, has_gpu>>
modelState == <<model, current_model_name, loaded_names>>
pure == <<ts, sub, naming>>

\* ------------------------------------------------------------ queue store
\* {"id": item_id, "path": path, "status": "Pending"} and the tree row
\* ("Pending", filename, path); ok records that model.transcribe has returned
\* a result for the item (history)
NewItem(p) ==
    [path |-> p, status |-> "Pending", tree |-> "Pending", ok |-> FALSE,
     asked |-> {}, written |-> {}]

RECURSIVE PathPresent(_, _, _)
PathPresent(q, p, i) ==
    IF i > Len(q) THEN FALSE
    ELSE IF q[i].path = p THEN TRUE
    ELSE PathPresent(q, p, i + 1)

\* add_to_queue comparing the new path with the last item only
add_to_queue_last_only(q, p) ==
    IF q # <<>> /\ q[Len(q)].path = p THEN q ELSE Append(q, NewItem(p))

add_to_queue(q, p) ==
    IF PathPresent(q, p, 1) THEN q ELSE Append(q, NewItem(p))

RECURSIVE add_files(_, _)
add_files(q, fs) ==
    IF fs = <<>> THEN q
    ELSE add_files(add_to_queue(q, Head(fs)), Tail(fs))

\* clear_queue without the is_processing test
clear_queue_unguarded(q, busy) == <<>>

clear_queue(q, busy) == IF busy THEN q ELSE <<>>

\* the selections a file dialog can return: 1..MaxFiles different paths in any order
Selections ==
    {fs \in UNION {[1..n -> Paths] : n \in 1..MaxFiles} :
        \A i, j \in DOMAIN fs : i # j => fs[i] # fs[j]}

\* --------------------------------------------------------------- workers
NoWorker ==
    [pc |-> "none", model_size |-> NoName, target_device |-> "None",
     total |-> 0, index |-> 0, loadCalls |-> <<>>, firstErr |-> "none",
     startModel |-> NoModel, startMarker |-> NoName, outcome |-> "none",
     asked |-> {}, written |-> {}]

\* positions inside the model-load or item-loop part of process_queue
LoadPcs == {"begin", "load1", "load2", "loaded"}
LoopPcs == {"loop", "item"}
\* positions at the three export tests (lines 375, 377, 379) and at line 383
WritePcs == {"srt", "vtt", "txt", "mark"}
RunPcs == LoadPcs \cup LoopPcs \cup WritePcs \cup {"reset_ui"}

\* the output formats, in the order of lines 375-381
Formats == {"srt", "vtt", "txt"}
AfterFormat(f) == IF f = "srt" THEN "vtt" ELSE IF f = "vtt" THEN "txt" ELSE "mark"

device_map(sel) == IF sel = "GPU (CUDA)" THEN "cuda" ELSE "cpu"

\* ------------------------------------------------------ format_timestamp
\* the divisors of lines 408-413
MsPerHour == 3600000
MsPerMinute == 60000
MsPerSecond == 1000

\* round(seconds * 1000.0), the product given in quarters of a millisecond:
\* Python rounds to the nearest integer and a half to the even neighbour
Round(q) ==
    LET whole == q \div 4
        rest == q % 4
    IN IF rest < 2 THEN whole
       ELSE IF rest > 2 THEN whole + 1
       ELSE IF whole % 2 = 0 THEN whole ELSE whole + 1

\* lines 408-413 with the line "milliseconds -= minutes * 60_000" left out
Fields_NoMinuteSub(ms) ==
    LET hours == ms \div MsPerHour
        rest1 == ms - hours * MsPerHour
        minutes == rest1 \div MsPerMinute
        seconds == rest1 \div MsPerSecond
        rest3 == rest1 - seconds * MsPerSecond
    IN [h |-> hours, mm |-> minutes, ss |-> seconds, ms |-> rest3]

\* lines 408-413: hours, minutes, seconds and milliseconds of the rounded input
Fields(ms) ==
    LET hours == ms \div MsPerHour
        rest1 == ms - hours * MsPerHour
        minutes == rest1 \div MsPerMinute
        rest2 == rest1 - minutes * MsPerMinute
        seconds == rest2 \div MsPerSecond
        rest3 == rest2 - seconds * MsPerSecond
    IN [h |-> hours, mm |-> minutes, ss |-> seconds, ms |-> rest3]

DigitChars == <<"0", "1", "2", "3", "4", "5", "6", "7", "8", "9">>

\* the decimal digits of n, as str.format writes them
RECURSIVE Dec(_)
Dec(n) == IF n < 10 THEN <<DigitChars[n + 1]>> ELSE Dec(n \div 10) \o <<DigitChars[(n % 10) + 1]>>

RECURSIVE Zeros(_)
Zeros(k) == IF k = 0 THEN <<>> ELSE <<"0">> \o Zeros(k - 1)

\* the format specs without the zero fill
Pad_NoFill(n, width) == Dec(n)

\* the format specs :02d and :03d: at least width digits, zero filled
Pad(n, width) ==
    LET d == Dec(n) IN IF Len(d) >= width THEN d ELSE Zeros(width - Len(d)) \o d

\* lines 406-415; strings are sequences of characters
format_timestamp(q, always_include_hours, decimal_marker) ==
    LET f == Fields(Round(q))
        hours_marker == IF always_include_hours \/ f.h > 0
                        THEN Pad(f.h, 2) \o <<":">>
                        ELSE <<"0", "0", ":">>
    IN hours_marker \o Pad(f.mm, 2) \o <<":">> \o Pad(f.ss, 2)
         \o <<decimal_marker>> \o Pad(f.ms, 3)

\* the hour values tried (bound below)
HourSamples == {0, 1, 99, MaxHours}

\* the inputs tried, in quarters of a millisecond: the ends of every field,
\* each with the four positions around a rounding step, and the two examples
\* of the documentation (3661.2005 s and 5 s)
TsInputs ==
    {4 * (h * MsPerHour + m * MsPerMinute + sec * MsPerSecond + k) + r :
        h \in HourSamples, m \in {0, 59}, sec \in {0, 59}, k \in {0, 999}, r \in 0..3}
    \cup {4 * 3661200 + 2, 4 * 5000}

Markers == {",", "."}

\* ------------------------------------------------- write_srt, write_vtt
Whitespace == {" ", "\n"}

\* str.strip(): leading and trailing whitespace removed
RECURSIVE Strip(_)
Strip(str) ==
    IF str = <<>> THEN str
    ELSE IF Head(str) \in Whitespace THEN Strip(Tail(str))
    ELSE IF str[Len(str)] \in Whitespace THEN Strip(SubSeq(str, 1, Len(str) - 1))
    ELSE str

Arrow == <<"-", "-", ">">>

\* str.replace('-->', '->'): the occurrences found scanning from the left,
\* each search resuming after the previous match, in one pass
RECURSIVE Replace(_)
Replace(str) ==
    IF Len(str) < 3 THEN str
    ELSE IF SubSeq(str, 1, 3) = Arrow THEN <<"-", ">">> \o Replace(SubSeq(str, 4, Len(str)))
    ELSE <<Head(str)>> \o Replace(Tail(str))

\* the timing line and the text lines of lines 423 and 432
Cue(start, end, text) ==
    start \o <<" ", "-", "-", ">", " ">> \o end \o <<"\n">>
      \o Replace(Strip(text)) \o <<"\n", "\n">>

\* lines 419-423 for segment number i
SrtBlock(i, segment) ==
    Dec(i) \o <<"\n">>
      \o Cue(format_timestamp(segment.start, TRUE, ","),
             format_timestamp(segment.end, TRUE, ","), segment.text)

\* write_srt with enumerate counting from 0
write_srt_from_zero(segments) ==
    [i \in 1..Len(segments) |-> SrtBlock(i - 1, segments[i])]

\* lines 417-423: the strings handed to f.write, in order
write_srt(segments) ==
    [i \in 1..Len(segments) |-> SrtBlock(i, segments[i])]

VttHeader == <<"W", "E", "B", "V", "T", "T", "\n", "\n">>

\* lines 425-432: the strings handed to f.write, in order
write_vtt(segments) ==
    <<VttHeader>> \o
    [i \in 1..Len(segments) |->
        Cue(format_timestamp(segments[i].start, FALSE, "."),
            format_timestamp(segments[i].end, FALSE, "."), segments[i].text)]

\* the characters of the segment texts tried
TextChars == {"-", ">", " ", "\n"}

Texts == UNION {[1..k -> TextChars] : k \in 0..MaxText}

\* three segments of one result: times that round down, up and not at all
\* (quarters of a millisecond), a plain text, a padded one and an arrow
SegPool ==
    { [start |-> 0, end |-> 4 * 1500 + 2, text |-> <<"a">>],
      [start |-> 4 * 1500 + 2, end |-> 4 * 3661200, text |-> <<" ", "b", " ">>],
      [start |-> 4 * 3661200, end |-> 4 * 3661201 + 3, text |-> <<"-", "-", ">">>] }

\* the segment lists tried: one segment with every text, and every list of
\* up to MaxSegs pool segments
SegInputs ==
    {<<[start |-> 0, end |-> 4 * 1000, text |-> t]>> : t \in Texts}
    \cup UNION {[1..k -> SegPool] : k \in 0..MaxSegs}

\* ------------------------------------------------------- output names
\* a path is a directory and a file name (os.path.dirname, os.path.basename);
\* a file name is a sequence of characters
NameChars == {"a", "b", "."}

\* the file names tried: every name that has a character other than a dot
FileNames ==
    {n \in UNION {[1..k -> NameChars] : k \in 1..MaxName} : \E i \in DOMAIN n : n[i] # "."}

SourceDirs == {"d1", "d2"}

MediaPaths == [dir : SourceDirs, name : FileNames]

\* the values of output_path_var tried: empty, a source directory, another one
OutputDirs == {"", "d1", "out"}

\* position of the last dot of name that has a character other than a dot
\* before it (0 when there is none): where os.path.splitext cuts
ExtDot(name) ==
    LET cuts == {i \in DOMAIN name :
                    name[i] = "." /\ \E j \in 1..(i - 1) : name[j] # "."}
    IN IF cuts = {} THEN 0 ELSE CHOOSE i \in cuts : \A j \in cuts : j <= i

\* os.path.splitext(name)[0]
Stem(name) == IF ExtDot(name) = 0 THEN name ELSE SubSeq(name, 1, ExtDot(name) - 1)

\* lines 362-373: the output base of a source path, the directory and the
\* name that os.path.join puts together
output_base(path, use_source_folder, output_path_var) ==
    LET base_name == Stem(path.name)
        output_dir == IF use_source_folder THEN path.dir
                      ELSE IF output_path_var = "" THEN path.dir
                      ELSE output_path_var
    IN [dir |-> output_dir, name |-> base_name]

\* no output base derived yet
NamingIdle ==
    [first |-> [dir |-> "d1", name |-> <<"a">>], second |-> [dir |-> "d1", name |-> <<"b">>],
     use_source_folder |-> TRUE, output_path_var |-> "", bases |-> <<>>]

\* no call made yet
TsIdle == [q |-> 0, always |-> FALSE, marker |-> ",", out |-> <<>>]
SubIdle == [segments |-> <<>>, srt |-> <<>>, vtt |-> <<>>, called |-> {}]

\* the application after __init__
AppInit ==
    /\ queue = <<>>
    /\ is_processing = FALSE
    /\ stop_event = FALSE
    /\ model = NoModel
    /\ current_model_name = NoName
    /\ whisper \in BOOLEAN
    /\ has_gpu \in BOOLEAN
    /\ has_gpu => whisper
    /\ model_var = "base"
    /\ device_var = IF has_gpu THEN "GPU (CUDA)" ELSE "CPU"
    /\ btn_start = "normal"
    /\ btn_stop = "disabled"
    /\ model_combo = "readonly"
    /\ device_combo = "readonly"
    /\ loaded_names = {}
    /\ wk = [w \in Workers |-> NoWorker]
    /\ export = [srt |-> TRUE, vtt |-> FALSE, txt |-> TRUE]

Init ==
    /\ AppInit
    /\ ts = TsIdle
    /\ sub = SubIdle
    /\ naming = NamingIdle

\* ------------------------------------------- controlling-thread handlers
\* add_files; add_folder_path and on_files_dropped hand their files to
\* add_to_queue one by one in the same way
AddFiles(fs) ==
    /\ queue' = add_files(queue, fs)
    /\ UNCHANGED <<is_processing, stop_event, modelState, settings, ui, env, export, pure, wk>>

ClearQueue ==
    /\ queue' = clear_queue(queue, is_processing)
    /\ UNCHANGED <<is_processing, stop_event, modelState, settings, ui, env, export, pure, wk>>

SelectModel(m) ==
    /\ model_combo = "readonly"
    /\ model_var' = m
    /\ UNCHANGED <<queue, is_processing, stop_event, modelState, device_var, ui, env, export, pure, wk>>

SelectDevice(d) ==
    /\ device_combo = "readonly"
    /\ d \in (IF has_gpu THEN {"GPU (CUDA)", "CPU"} ELSE {"CPU"})
    /\ device_var' = d
    /\ UNCHANGED <<queue, is_processing, stop_event, modelState, model_var, ui, env, export, pure, wk>>

\* the slot the new thread takes
FreeSlot(w) == wk[w].pc = "none" /\ \A v \in Workers : v < w => wk[v].pc # "none"

\* start_processing_thread leaving the start button enabled
StartProcessingThread_NoDisable ==
    /\ btn_start = "normal"
    /\ IF queue = <<>> \/ ~whisper
       THEN UNCHANGED vars
       ELSE \E w \in Workers :
              /\ FreeSlot(w)
              /\ is_processing' = TRUE
              /\ stop_event' = FALSE
              /\ btn_stop' = "normal"
              /\ model_combo' = "disabled"
              /\ device_combo' = "disabled"
              /\ wk' = [wk EXCEPT ![w] = [NoWorker EXCEPT !.pc = "begin"]]
              /\ UNCHANGED <<queue, modelState, settings, env, export, pure, btn_start>>

\* the command of btn_start: Tk runs it only while the button is enabled
StartProcessingThread ==
    /\ btn_start = "normal"
    /\ IF queue = <<>> \/ ~whisper
       THEN UNCHANGED vars
       ELSE \E w \in Workers :
              /\ FreeSlot(w)
              /\ is_processing' = TRUE
              /\ stop_event' = FALSE
              /\ btn_start' = "disabled"
              /\ btn_stop' = "normal"
              /\ model_combo' = "disabled"
              /\ device_combo' = "disabled"
              /\ wk' = [wk EXCEPT ![w] = [NoWorker EXCEPT !.pc = "begin"]]
              /\ UNCHANGED <<queue, modelState, settings, env, export, pure>>

StopProcessing(answer) ==
    /\ btn_stop = "normal"
    /\ stop_event' = (IF answer THEN TRUE ELSE stop_event)
    /\ UNCHANGED <<queue, is_processing, modelState, settings, ui, env, export, pure, wk>>

\* ------------------------------------------------ worker: process_queue
\* process_queue loading the model whatever is loaded already
Begin_AlwaysLoad(w) ==
    /\ wk[w].pc = "begin"
    /\ LET size == model_var
           dev == device_map(device_var)
       IN wk' = [wk EXCEPT ![w] =
                   [@ EXCEPT !.model_size = size, !.target_device = dev,
                             !.startModel = model, !.startMarker = current_model_name,
                             !.loadCalls = <<dev>>, !.pc = "load1"]]
    /\ UNCHANGED <<queue, is_processing, stop_event, modelState, settings, ui, env, export, pure>>

\* lines 300-309: read the selection, decide whether to load, call load_model
Begin(w) ==
    /\ wk[w].pc = "begin"
    /\ LET size == model_var
           dev == device_map(device_var)
           need == current_model_name # size \/ model = NoModel
       IN wk' = [wk EXCEPT ![w] =
                   [@ EXCEPT !.model_size = size, !.target_device = dev,
                             !.startModel = model, !.startMarker = current_model_name,
                             !.loadCalls = IF need THEN <<dev>> ELSE <<>>,
                             !.pc = IF need THEN "load1" ELSE "loaded"]]
    /\ UNCHANGED <<queue, is_processing, stop_event, modelState, settings, ui, env, export, pure>>

\* the first load failing without any CPU fallback
Load1Return_NoFallback(w, res) ==
    /\ wk[w].pc = "load1"
    /\ IF res = "ok"
       THEN /\ model' = [name |-> wk[w].model_size, device |-> wk[w].target_device]
            /\ current_model_name' = wk[w].model_size
            /\ loaded_names' = loaded_names \cup {wk[w].model_size}
            /\ wk' = [wk EXCEPT ![w] = [@ EXCEPT !.pc = "loaded"]]
       ELSE /\ UNCHANGED modelState
            /\ wk' = [wk EXCEPT ![w] =
                        [@ EXCEPT !.pc = "reset_ui", !.firstErr = res,
                                  !.outcome = "aborted"]]
    /\ UNCHANGED <<queue, is_processing, stop_event, settings, ui, env, export, pure>>

\* the first load failing with the CPU fallback taken on every error
Load1Return_AlwaysFallback(w, res) ==
    /\ wk[w].pc = "load1"
    /\ IF res = "ok"
       THEN /\ model' = [name |-> wk[w].model_size, device |-> wk[w].target_device]
            /\ current_model_name' = wk[w].model_size
            /\ loaded_names' = loaded_names \cup {wk[w].model_size}
            /\ wk' = [wk EXCEPT ![w] = [@ EXCEPT !.pc = "loaded"]]
       ELSE /\ UNCHANGED modelState
            /\ wk' = [wk EXCEPT ![w] =
                        [@ EXCEPT !.pc = "load2", !.firstErr = res,
                                  !.loadCalls = Append(@, "cpu")]]
    /\ UNCHANGED <<queue, is_processing, stop_event, settings, ui, env, export, pure>>

\* lines 309-327: the first load_model call returns or raises
Load1Return(w, res) ==
    /\ wk[w].pc = "load1"
    /\ IF res = "ok"
       THEN /\ model' = [name |-> wk[w].model_size, device |-> wk[w].target_device]
            /\ current_model_name' = wk[w].model_size
            /\ loaded_names' = loaded_names \cup {wk[w].model_size}
            /\ wk' = [wk EXCEPT ![w] = [@ EXCEPT !.pc = "loaded"]]
       ELSE /\ UNCHANGED modelState
            /\ IF res = "cuda_err" \/ wk[w].target_device = "cuda"
               THEN wk' = [wk EXCEPT ![w] =
                             [@ EXCEPT !.pc = "load2", !.firstErr = res,
                                       !.loadCalls = Append(@, "cpu")]]
               ELSE wk' = [wk EXCEPT ![w] =
                             [@ EXCEPT !.pc = "reset_ui", !.firstErr = res,
                                       !.outcome = "aborted"]]
    /\ UNCHANGED <<queue, is_processing, stop_event, settings, ui, env, export, pure>>

\* the CPU fallback failing with the thread returning before reset_ui
Load2Return_NoReset(w, res) ==
    /\ wk[w].pc = "load2"
    /\ IF res = "ok"
       THEN /\ model' = [name |-> wk[w].model_size, device |-> "cpu"]
            /\ current_model_name' = wk[w].model_size
            /\ loaded_names' = loaded_names \cup {wk[w].model_size}
            /\ wk' = [wk EXCEPT ![w] = [@ EXCEPT !.pc = "loaded"]]
       ELSE /\ UNCHANGED modelState
            /\ wk' = [wk EXCEPT ![w] = NoWorker]
    /\ UNCHANGED <<queue, is_processing, stop_event, settings, ui, env, export, pure>>

\* lines 317-323: the CPU fallback call returns or raises
Load2Return(w, res) ==
    /\ wk[w].pc = "load2"
    /\ IF res = "ok"
       THEN /\ model' = [name |-> wk[w].model_size, device |-> "cpu"]
            /\ current_model_name' = wk[w].model_size
            /\ loaded_names' = loaded_names \cup {wk[w].model_size}
            /\ wk' = [wk EXCEPT ![w] = [@ EXCEPT !.pc = "loaded"]]
       ELSE /\ UNCHANGED modelState
            /\ wk' = [wk EXCEPT ![w] = [@ EXCEPT !.pc = "reset_ui", !.outcome = "aborted"]]
    /\ UNCHANGED <<queue, is_processing, stop_event, settings, ui, env, export, pure>>

\* line 329: total = len(self.queue); the load bookkeeping ends here
EnterLoop(w) ==
    /\ wk[w].pc = "loaded"
    /\ wk' = [wk EXCEPT ![w] =
                [NoWorker EXCEPT !.pc = "loop", !.model_size = wk[w].model_size,
                                 !.target_device = wk[w].target_device,
                                 !.total = Len(queue), !.index = 0]]
    /\ UNCHANGED <<queue, is_processing, stop_event, modelState, settings, ui, env, export, pure>>

\* the loop head walking the queue from its end
LoopStep_Reversed(w) ==
    /\ wk[w].pc = "loop"
    /\ LET i == Len(queue) - wk[w].index IN
       IF wk[w].index + 1 > Len(queue)
       THEN /\ wk' = [wk EXCEPT ![w] = [@ EXCEPT !.pc = "reset_ui", !.outcome = "complete"]]
            /\ UNCHANGED queue
       ELSE IF stop_event
       THEN /\ wk' = [wk EXCEPT ![w] = [@ EXCEPT !.pc = "reset_ui", !.outcome = "stopped"]]
            /\ UNCHANGED queue
       ELSE IF queue[i].status = "Done"
       THEN /\ wk' = [wk EXCEPT ![w] = [@ EXCEPT !.index = @ + 1]]
            /\ UNCHANGED queue
       ELSE /\ queue' = [queue EXCEPT ![i] = [@ EXCEPT !.tree = "Processing..."]]
            /\ wk' = [wk EXCEPT ![w] = [@ EXCEPT !.pc = "item"]]
    /\ UNCHANGED <<is_processing, stop_event, modelState, settings, ui, env, export, pure>>

\* the loop head without the test of the stop event
LoopStep_NoStop(w) ==
    /\ wk[w].pc = "loop"
    /\ LET i == wk[w].index + 1 IN
       IF i > Len(queue)
       THEN /\ wk' = [wk EXCEPT ![w] = [@ EXCEPT !.pc = "reset_ui", !.outcome = "complete"]]
            /\ UNCHANGED queue
       ELSE IF queue[i].status = "Done"
       THEN /\ wk' = [wk EXCEPT ![w] = [@ EXCEPT !.index = i]]
            /\ UNCHANGED queue
       ELSE /\ queue' = [queue EXCEPT ![i] = [@ EXCEPT !.tree = "Processing..."]]
            /\ wk' = [wk EXCEPT ![w] = [@ EXCEPT !.pc = "item"]]
    /\ UNCHANGED <<is_processing, stop_event, modelState, settings, ui, env, export, pure>>

\* the loop head without the test for Done
LoopStep_NoSkip(w) ==
    /\ wk[w].pc = "loop"
    /\ LET i == wk[w].index + 1 IN
       IF i > Len(queue)
       THEN /\ wk' = [wk EXCEPT ![w] = [@ EXCEPT !.pc = "reset_ui", !.outcome = "complete"]]
            /\ UNCHANGED queue
       ELSE IF stop_event
       THEN /\ wk' = [wk EXCEPT ![w] = [@ EXCEPT !.pc = "reset_ui", !.outcome = "stopped"]]
            /\ UNCHANGED queue
       ELSE /\ queue' = [queue EXCEPT ![i] = [@ EXCEPT !.tree = "Processing..."]]
            /\ wk' = [wk EXCEPT ![w] = [@ EXCEPT !.pc = "item"]]
    /\ UNCHANGED <<is_processing, stop_event, modelState, settings, ui, env, export, pure>>

\* lines 339-348: one pass through the head of the for loop
LoopStep(w) ==
    /\ wk[w].pc = "loop"
    /\ LET i == wk[w].index + 1 IN
       IF i > Len(queue)
       THEN /\ wk' = [wk EXCEPT ![w] = [@ EXCEPT !.pc = "reset_ui", !.outcome = "complete"]]
            /\ UNCHANGED queue
       ELSE IF stop_event
       THEN /\ wk' = [wk EXCEPT ![w] = [@ EXCEPT !.pc = "reset_ui", !.outcome = "stopped"]]
            /\ UNCHANGED queue
       ELSE IF queue[i].status = "Done"
       THEN /\ wk' = [wk EXCEPT ![w] = [@ EXCEPT !.index = i]]
            /\ UNCHANGED queue
       ELSE /\ queue' = [queue EXCEPT ![i] = [@ EXCEPT !.tree = "Processing..."]]
            /\ wk' = [wk EXCEPT ![w] = [@ EXCEPT !.pc = "item"]]
    /\ UNCHANGED <<is_processing, stop_event, modelState, settings, ui, env, export, pure>>

\* a failing item ending the run (the except clause outside the loop)
FinishItem_AbortOnError(w, res) ==
    /\ wk[w].pc = "item"
    /\ LET i == wk[w].index + 1
           st == IF res = "ok" THEN "Done" ELSE "Error"
           on == {f \in Formats : export[f]}
       IN /\ queue' = [queue EXCEPT ![i] =
                         [@ EXCEPT !.status = st, !.tree = st,
                                   !.ok = IF res = "transcribe_err" THEN @ ELSE TRUE,
                                   !.asked = IF res = "ok" THEN on ELSE @,
                                   !.written = IF res = "ok" THEN on ELSE @]]
          /\ wk' = [wk EXCEPT ![w] =
                      IF res = "ok"
                      THEN [@ EXCEPT !.pc = "loop", !.index = i]
                      ELSE [@ EXCEPT !.pc = "reset_ui", !.index = i,
                                     !.outcome = "complete"]]
    /\ UNCHANGED <<is_processing, stop_event, modelState, settings, ui, env, export, pure>>

\* lines 350-389: transcribe and the output writes of the current item, the
\* export checkboxes read at one moment; a Done item records the formats
\* asked for and written
FinishItem(w, res) ==
    /\ wk[w].pc = "item"
    /\ LET i == wk[w].index + 1
           st == IF res = "ok" THEN "Done" ELSE "Error"
           on == {f \in Formats : export[f]}
       IN /\ queue' = [queue EXCEPT ![i] =
                         [@ EXCEPT !.status = st, !.tree = st,
                                   !.ok = IF res = "transcribe_err" THEN @ ELSE TRUE,
                                   !.asked = IF res = "ok" THEN on ELSE @,
                                   !.written = IF res = "ok" THEN on ELSE @]]
          /\ wk' = [wk EXCEPT ![w] = [@ EXCEPT !.pc = "loop", !.index = i]]
    /\ UNCHANGED <<is_processing, stop_event, modelState, settings, ui, env, export, pure>>

\* -------------------------------------- worker: the item, step by step
\* lines 166-168, 170-175: the user ticking or clearing an export checkbox
\* (the checkboxes stay enabled during a run)
ToggleExport(f) ==
    /\ export' = [export EXCEPT ![f] = ~@]
    /\ UNCHANGED <<queue, is_processing, stop_event, modelState, settings, ui, env,
                   wk, pure>>

\* lines 350-373: transcribe returns or raises ("transcribe_err"), or the
\* creation of the output directory raises ("write_err")
TranscribeReturn(w, res) ==
    /\ wk[w].pc = "item"
    /\ LET i == wk[w].index + 1 IN
       IF res = "ok"
       THEN /\ queue' = [queue EXCEPT ![i] = [@ EXCEPT !.ok = TRUE]]
            /\ wk' = [wk EXCEPT ![w] = [@ EXCEPT !.pc = "srt", !.asked = {}, !.written = {}]]
       ELSE /\ queue' = [queue EXCEPT ![i] =
                           [@ EXCEPT !.status = "Error", !.tree = "Error",
                                     !.ok = IF res = "transcribe_err" THEN @ ELSE TRUE]]
            /\ wk' = [wk EXCEPT ![w] = [@ EXCEPT !.pc = "loop", !.index = i]]
    /\ UNCHANGED <<is_processing, stop_event, modelState, settings, ui, env, export, pure>>

\* an export step in which a failed write is passed over
ExportStep_IgnoreFailure(w, f, written) ==
    /\ wk[w].pc = f
    /\ IF ~export[f]
       THEN /\ written
            /\ wk' = [wk EXCEPT ![w] = [@ EXCEPT !.pc = AfterFormat(f)]]
            /\ UNCHANGED queue
       ELSE /\ wk' = [wk EXCEPT ![w] =
                        [@ EXCEPT !.pc = AfterFormat(f), !.asked = @ \cup {f},
                                  !.written = IF written THEN @ \cup {f} ELSE @]]
            /\ UNCHANGED queue
    /\ UNCHANGED <<is_processing, stop_event, modelState, settings, ui, env, export, pure>>

\* lines 375-381, one of the three tests: the checkbox of format f is read
\* now; if it is set the file is written, and a write that raises goes to
\* the except clause of lines 386-389
ExportStep(w, f, written) ==
    /\ wk[w].pc = f
    /\ LET i == wk[w].index + 1 IN
       IF ~export[f]
       THEN /\ written
            /\ wk' = [wk EXCEPT ![w] = [@ EXCEPT !.pc = AfterFormat(f)]]
            /\ UNCHANGED queue
       ELSE IF written
       THEN /\ wk' = [wk EXCEPT ![w] =
                        [@ EXCEPT !.pc = AfterFormat(f), !.asked = @ \cup {f},
                                  !.written = @ \cup {f}]]
            /\ UNCHANGED queue
       ELSE /\ queue' = [queue EXCEPT ![i] = [@ EXCEPT !.status = "Error", !.tree = "Error"]]
            /\ wk' = [wk EXCEPT ![w] =
                        [@ EXCEPT !.pc = "loop", !.index = i, !.asked = {}, !.written = {}]]
    /\ UNCHANGED <<is_processing, stop_event, modelState, settings, ui, env, export, pure>>

\* lines 383-384
MarkDone(w) ==
    /\ wk[w].pc = "mark"
    /\ LET i == wk[w].index + 1 IN
       /\ queue' = [queue EXCEPT ![i] =
                      [@ EXCEPT !.status = "Done", !.tree = "Done",
                                !.asked = wk[w].asked, !.written = wk[w].written]]
       /\ wk' = [wk EXCEPT ![w] =
                   [@ EXCEPT !.pc = "loop", !.index = i, !.asked = {}, !.written = {}]]
    /\ UNCHANGED <<is_processing, stop_event, modelState, settings, ui, env, export, pure>>

\* ------------------------------------------------------ worker: reset_ui
\* line 396
ResetFlag(w) ==
    /\ wk[w].pc = "reset_ui"
    /\ is_processing' = FALSE
    /\ wk' = [wk EXCEPT ![w] = [NoWorker EXCEPT !.pc = "reset_btn"]]
    /\ UNCHANGED <<queue, stop_event, modelState, settings, ui, env, export, pure>>

\* line 397
ResetStart(w) ==
    /\ wk[w].pc = "reset_btn"
    /\ btn_start' = "normal"
    /\ wk' = [wk EXCEPT ![w] = [@ EXCEPT !.pc = "reset_rest"]]
    /\ UNCHANGED <<queue, is_processing, stop_event, modelState, settings,
                   btn_stop, model_combo, device_combo, env, export, pure>>

\* lines 398-400, then the thread ends
ResetRest(w) ==
    /\ wk[w].pc = "reset_rest"
    /\ btn_stop' = "disabled"
    /\ model_combo' = "readonly"
    /\ device_combo' = "readonly"
    /\ wk' = [wk EXCEPT ![w] = NoWorker]
    /\ UNCHANGED <<queue, is_processing, stop_event, modelState, settings, btn_start, env, export, pure>>

Next ==
    \/ \E fs \in Selections : AddFiles(fs)
    \/ ClearQueue
    \/ \E m \in ModelNames : SelectModel(m)
    \/ \E d \in {"GPU (CUDA)", "CPU"} : SelectDevice(d)
    \/ StartProcessingThread
    \/ \E a \in BOOLEAN : StopProcessing(a)
    \/ \E w \in Workers : Begin(w)
    \/ \E w \in Workers, r \in LoadResults : Load1Return(w, r)
    \/ \E w \in Workers, r \in LoadResults : Load2Return(w, r)
    \/ \E w \in Workers : EnterLoop(w)
    \/ \E w \in Workers : LoopStep(w)
    \/ \E w \in Workers, r \in ItemResults : FinishItem(w, r)
    \/ \E w \in Workers : ResetFlag(w)
    \/ \E w \in Workers : ResetStart(w)
    \/ \E w \in Workers : ResetRest(w)
    \/ \E f \in Formats : ToggleExport(f)

\* the whole application
Spec == Init /\ [][Next]_vars

\* The queue under every interleaving of adds, clears, starts, stops and
\* worker steps, the user leaving the model and device selection as it is
\* at start-up.
NextQueue ==
    \/ \E fs \in Selections : AddFiles(fs)
    \/ ClearQueue
    \/ StartProcessingThread
    \/ \E a \in BOOLEAN : StopProcessing(a)
    \/ \E w \in Workers : Begin(w)
    \/ \E w \in Workers, r \in LoadResults : Load1Return(w, r)
    \/ \E w \in Workers, r \in LoadResults : Load2Return(w, r)
    \/ \E w \in Workers : EnterLoop(w)
    \/ \E w \in Workers : LoopStep(w)
    \/ \E w \in Workers, r \in ItemResults : FinishItem(w, r)
    \/ \E w \in Workers : ResetFlag(w)
    \/ \E w \in Workers : ResetStart(w)
    \/ \E w \in Workers : ResetRest(w)

SpecQueue == Init /\ [][NextQueue]_vars

\* Model loading under every sequence of model and device selections, load
\* outcomes and runs, the user queueing one file.
OneFile == <<1>>

NextLoad ==
    \/ AddFiles(OneFile)
    \/ ClearQueue
    \/ \E m \in ModelNames : SelectModel(m)
    \/ \E d \in {"GPU (CUDA)", "CPU"} : SelectDevice(d)
    \/ StartProcessingThread
    \/ \E a \in BOOLEAN : StopProcessing(a)
    \/ \E w \in Workers : Begin(w)
    \/ \E w \in Workers, r \in LoadResults : Load1Return(w, r)
    \/ \E w \in Workers, r \in LoadResults : Load2Return(w, r)
    \/ \E w \in Workers : EnterLoop(w)
    \/ \E w \in Workers : LoopStep(w)
    \/ \E w \in Workers, r \in ItemResults : FinishItem(w, r)
    \/ \E w \in Workers : ResetFlag(w)
    \/ \E w \in Workers : ResetStart(w)
    \/ \E w \in Workers : ResetRest(w)

SpecLoad == Init /\ [][NextLoad]_vars

\* The outputs of an item, the item taken step by step (transcribe, the three
\* export tests, the Done mark) while the user queues one file and changes
\* the export checkboxes; every model load succeeds.
NextOut ==
    \/ AddFiles(OneFile)
    \/ \E f \in Formats : ToggleExport(f)
    \/ StartProcessingThread
    \/ \E w \in Workers : Begin(w)
    \/ \E w \in Workers : Load1Return(w, "ok")
    \/ \E w \in Workers : EnterLoop(w)
    \/ \E w \in Workers : LoopStep(w)
    \/ \E w \in Workers, r \in ItemResults : TranscribeReturn(w, r)
    \/ \E w \in Workers, f \in Formats, b \in BOOLEAN : ExportStep(w, f, b)
    \/ \E w \in Workers : MarkDone(w)
    \/ \E w \in Workers : ResetFlag(w)
    \/ \E w \in Workers : ResetStart(w)
    \/ \E w \in Workers : ResetRest(w)

SpecOut == Init /\ [][NextOut]_vars

\* format_timestamp applied to every input of TsInputs, with both values of
\* always_include_hours and both decimal markers
InitFmt ==
    /\ AppInit
    /\ ts \in [q : TsInputs, always : BOOLEAN, marker : Markers, out : {<<>>}]
    /\ sub = SubIdle
    /\ naming = NamingIdle

FormatTimestamp ==
    /\ ts.out = <<>>
    /\ ts' = [ts EXCEPT !.out = format_timestamp(ts.q, ts.always, ts.marker)]
    /\ UNCHANGED <<queue, is_processing, stop_event, modelState, settings, ui, env,
                   export, wk, sub, naming>>

NextFmt == FormatTimestamp

SpecFmt == InitFmt /\ [][NextFmt]_vars

\* write_srt and write_vtt applied, in either order, to every segment list
\* of SegInputs
InitSub ==
    /\ AppInit
    /\ ts = TsIdle
    /\ sub \in [segments : SegInputs, srt : {<<>>}, vtt : {<<>>}, called : {{}}]
    /\ naming = NamingIdle

WriteSrt ==
    /\ "srt" \notin sub.called
    /\ sub' = [sub EXCEPT !.srt = write_srt(sub.segments), !.called = @ \cup {"srt"}]
    /\ UNCHANGED <<queue, is_processing, stop_event, modelState, settings, ui, env,
                   export, wk, ts, naming>>

WriteVtt ==
    /\ "vtt" \notin sub.called
    /\ sub' = [sub EXCEPT !.vtt = write_vtt(sub.segments), !.called = @ \cup {"vtt"}]
    /\ UNCHANGED <<queue, is_processing, stop_event, modelState, settings, ui, env,
                   export, wk, ts, naming>>

NextSub == WriteSrt \/ WriteVtt

SpecSub == InitSub /\ [][NextSub]_vars

\* The output base derived for two items of one queue (two different
\* paths, line 260) under one setting of the output options.
InitNaming ==
    /\ AppInit
    /\ ts = TsIdle
    /\ sub = SubIdle
    /\ naming \in {n \in [first : MediaPaths, second : MediaPaths,
                           use_source_folder : BOOLEAN, output_path_var : OutputDirs,
                           bases : {<<>>}] : n.first # n.second}

DeriveOutputs ==
    /\ naming.bases = <<>>
    /\ naming' = [naming EXCEPT !.bases =
                    <<output_base(naming.first, naming.use_source_folder, naming.output_path_var),
                      output_base(naming.second, naming.use_source_folder, naming.output_path_var)>>]
    /\ UNCHANGED <<queue, is_processing, stop_event, modelState, settings, ui, env,
                   export, wk, ts, sub>>

NextNaming == DeriveOutputs

SpecNaming == InitNaming /\ [][NextNaming]_vars

\* one step of worker thread w
WorkerStep(w) ==
    \/ Begin(w)
    \/ \E r \in LoadResults : Load1Return(w, r)
    \/ \E r \in LoadResults : Load2Return(w, r)
    \/ EnterLoop(w)
    \/ LoopStep(w)
    \/ \E r \in ItemResults : FinishItem(w, r)
    \/ ResetFlag(w)
    \/ ResetStart(w)
    \/ ResetRest(w)

\* SpecLoad with every started thread scheduled again and again and every
\* load_model and transcribe call returning or raising
SpecLoadFair == SpecLoad /\ \A w \in Workers : WF_vars(WorkerStep(w))

\* ------------------------------------------------------------------ claims
\* the positions of the queue that hold the same item before and after a step
\* (the queue is only ever appended to or emptied)
Kept == {i \in 1..Len(queue) : i <= Len(queue')}

Running(w) == wk[w].pc \in RunPcs

\* C1: no two items of the queue have the same path; add_to_queue(p) with p
\* present leaves the queue as it is, and otherwise appends exactly one
\* Pending item at the end.
C1_UniquePaths ==
    /\ \A i, j \in 1..Len(queue) : i # j => queue[i].path # queue[j].path
    /\ \A p \in Paths :
         LET q2 == add_to_queue(queue, p) IN
         IF \E i \in 1..Len(queue) : queue[i].path = p
         THEN q2 = queue
         ELSE /\ Len(q2) = Len(queue) + 1
              /\ SubSeq(q2, 1, Len(queue)) = queue
              /\ q2[Len(q2)].path = p
              /\ q2[Len(q2)].status = "Pending"
              /\ q2[Len(q2)].tree = "Pending"

\* a queue of two items after a run, to which both paths would be duplicates
C1_Witness ==
    /\ Len(queue) = 2
    /\ queue[1].status = "Done"
    /\ queue[2].path < queue[1].path

ThreeSteps ==
    {<<"Pending", "Processing...">>, <<"Processing...", "Done">>,
     <<"Processing...", "Error">>}

\* C2 as stated: every change of an item's displayed status is Pending ->
\* Processing, Processing -> Done or Processing -> Error, so Done and Error
\* are final.
C2_Orig ==
    [][\A i \in Kept : queue'[i].tree # queue[i].tree
          => <<queue[i].tree, queue'[i].tree>> \in ThreeSteps]_vars

\* C2 amended: every change of an item's displayed status is Pending ->
\* Processing, Error -> Processing (a later run retries it), Processing ->
\* Done or Processing -> Error; an item that is Done stays Done while it is
\* in the queue; the item's own status field is never Processing.
C2_Transitions ==
    /\ [][\A i \in Kept :
            /\ queue'[i].tree # queue[i].tree
                 => <<queue[i].tree, queue'[i].tree>>
                      \in ThreeSteps \cup {<<"Error", "Processing...">>}
            /\ queue[i].tree = "Done" => queue'[i].tree = "Done"
            /\ queue[i].status = "Done" => queue'[i].status = "Done"]_vars
    /\ [](\A i \in 1..Len(queue) : queue[i].status \in {"Pending", "Done", "Error"})

\* an item that failed in an earlier run is being processed again
C2_Witness ==
    \E i \in 1..Len(queue) : queue[i].status = "Error" /\ queue[i].tree = "Processing..."

\* C3 as stated: an item is transcribed successfully at most once between
\* two clears: an item that becomes Done has had no earlier transcribe call
\* that returned a result.
C3_Orig ==
    [][\A i \in Kept : queue[i].status # "Done" /\ queue'[i].status = "Done"
          => ~queue[i].ok]_vars

\* C3 amended: transcribe is never in flight for an item that was Done when
\* the worker reached it, and a Done item is left exactly as it is by every
\* step but a clear of the queue, so it is marked Done at most once between
\* two clears.
C3_DoneSkipped ==
    /\ [](\A w \in Workers : wk[w].pc = "item"
            => queue[wk[w].index + 1].status # "Done")
    /\ [][\A i \in 1..Len(queue) : queue[i].status = "Done"
            => \/ queue' = <<>> /\ \A w \in Workers : ~Running(w)
               \/ i <= Len(queue') /\ queue'[i] = queue[i]]_vars

\* a worker at the head of the loop, about to reach a Done item
C3_Witness ==
    \E w \in Workers :
        /\ wk[w].pc = "loop"
        /\ wk[w].index + 1 <= Len(queue)
        /\ queue[wk[w].index + 1].status = "Done"
        /\ ~stop_event

\* C4: clear_queue during a run is rejected and leaves the queue as it is,
\* no item leaves the queue while a worker is between the start of its run
\* and line 396, and clear_queue empties the queue when no run is active.
C4_ClearRejected ==
    /\ [](\A w \in Workers : Running(w) => is_processing)
    /\ [](clear_queue(queue, TRUE) = queue /\ clear_queue(queue, FALSE) = <<>>)
    /\ [][(\E w \in Workers : Running(w))
            => /\ Len(queue') >= Len(queue)
               /\ \A i \in 1..Len(queue) : queue'[i].path = queue[i].path]_vars

\* a run in the middle of an item with a second item queued
C4_Witness ==
    \E w \in Workers : wk[w].pc = "item" /\ is_processing /\ Len(queue) = 2

\* C5: at most one worker thread is inside the model-load or item-loop part
\* of process_queue, and while one is there the start button is disabled, so
\* no start request reaches start_processing_thread.
C5_OneRun ==
    /\ Cardinality({w \in Workers : Running(w)}) <= 1
    /\ (\E w \in Workers : Running(w)) => btn_start = "disabled" /\ is_processing

\* a run started while the previous run's thread is still inside reset_ui
C5_Witness ==
    \E w, v \in Workers : wk[w].pc \in LoopPcs /\ wk[v].pc = "reset_rest"

\* C6: while the stop event is set, no worker starts an item (a worker at
\* the head of the loop can only leave the loop), the only item that changes
\* is the one whose transcription is in flight, which ends Done or Error, and
\* every other item, Done ones included, stays as it is.
C6_StopAtBoundary ==
    [][stop_event /\ stop_event'
         => /\ \A w \in Workers : wk[w].pc = "loop" /\ wk'[w] # wk[w]
                  => wk'[w].pc = "reset_ui"
            /\ \A i \in Kept : queue'[i] # queue[i]
                  => /\ \E w \in Workers : wk[w].pc = "item" /\ wk[w].index + 1 = i
                     /\ queue'[i].tree \in {"Done", "Error"}
                     /\ queue'[i].status = queue'[i].tree]_vars

\* a run stopped with the item before the boundary handled and the next one
\* still Pending
C6_Witness ==
    \E w \in Workers :
        /\ stop_event
        /\ wk[w].pc = "reset_ui" /\ wk[w].outcome = "stopped"
        /\ wk[w].index = 1 /\ Len(queue) = 2
        /\ queue[1].status \in {"Done", "Error"}
        /\ queue[2].status = "Pending"

LoadTracked(w) ==
    wk[w].pc \in {"load1", "load2", "loaded"} \/ wk[w].outcome = "aborted"

\* C7: in a run with target device cuda, a failed first load_model call is
\* followed by exactly one more call, with device cpu; if that fails too the
\* run goes to reset_ui with the model as it was; no run makes more than two
\* load_model calls; no item changes while a run is loading or has aborted,
\* and a worker is in the item loop only with the requested model loaded.
C7_GpuFallback ==
    /\ [](\A w \in Workers :
            /\ Len(wk[w].loadCalls) <= 2
            /\ wk[w].pc \in LoopPcs
                 => model # NoModel /\ current_model_name = wk[w].model_size
            /\ wk[w].target_device = "cuda" /\ LoadTracked(w)
                 => /\ wk[w].pc = "load1"
                         => wk[w].loadCalls = <<"cuda">> /\ wk[w].firstErr = "none"
                    /\ wk[w].pc = "load2" => wk[w].firstErr # "none"
                    /\ wk[w].firstErr # "none" => wk[w].loadCalls = <<"cuda", "cpu">>
                    /\ wk[w].firstErr = "none" => Len(wk[w].loadCalls) <= 1
                    /\ wk[w].outcome = "aborted"
                         => /\ wk[w].pc = "reset_ui"
                            /\ wk[w].firstErr # "none"
                            /\ model = wk[w].startModel)
    /\ [][(\E w \in Workers : wk[w].pc \in LoadPcs \/ wk[w].outcome = "aborted")
            => \A i \in 1..Len(queue) : i <= Len(queue') /\ queue'[i] = queue[i]]_vars

\* a cuda run whose two load_model calls both failed, with a file queued
C7_Witness ==
    \E w \in Workers :
        /\ wk[w].target_device = "cuda"
        /\ wk[w].outcome = "aborted"
        /\ wk[w].loadCalls = <<"cuda", "cpu">>
        /\ queue # <<>>

\* C8 as stated: a run with target device cpu never makes a second
\* load_model call, whatever the error.
C8_Orig ==
    \A w \in Workers : wk[w].target_device = "cpu" => Len(wk[w].loadCalls) <= 1

\* C8 amended: in a run with target device cpu, a load failure whose message
\* does not contain "CUDA" is fatal (one call, the run goes to reset_ui with
\* the model as it was); a second call is made only when the target was cuda
\* or the first error's message contains "CUDA", and it is a cpu call.
C8_CpuFatal ==
    \A w \in Workers :
        /\ wk[w].target_device = "cpu" /\ wk[w].firstErr = "other_err"
             => /\ wk[w].pc = "reset_ui"
                /\ wk[w].outcome = "aborted"
                /\ wk[w].loadCalls = <<"cpu">>
                /\ model = wk[w].startModel
        /\ wk[w].target_device = "cpu" /\ wk[w].firstErr = "cuda_err"
             => wk[w].loadCalls = <<"cpu", "cpu">>
        /\ Len(wk[w].loadCalls) = 2
             => /\ wk[w].target_device = "cuda" \/ wk[w].firstErr = "cuda_err"
                /\ wk[w].loadCalls[2] = "cpu"

\* a cpu run ended by a load error that does not mention CUDA
C8_Witness ==
    \E w \in Workers :
        /\ wk[w].target_device = "cpu"
        /\ wk[w].firstErr = "other_err"
        /\ wk[w].pc = "reset_ui"

\* C9 as stated: once a name has been loaded, no later run requesting that
\* name calls load_model.
C9_Orig ==
    \A w \in Workers : wk[w].pc = "load1" => wk[w].model_size \notin loaded_names

\* C9 amended: a run calls load_model exactly when no model is loaded or the
\* requested name differs from current_model_name as the run begins (so a run
\* requesting the name that is still the marker loads nothing and keeps the
\* loaded model); a failed load leaves model and marker as they were, and
\* the marker is the name of the loaded model.
C9_Memo ==
    /\ (model = NoModel) <=> (current_model_name = NoName)
    /\ model # NoModel => model.name = current_model_name
    /\ \A w \in Workers :
         /\ LoadTracked(w)
              => ((wk[w].loadCalls = <<>>)
                    <=> (wk[w].startModel # NoModel /\ wk[w].startMarker = wk[w].model_size))
         /\ wk[w].pc \in {"load1", "load2"} \/ wk[w].outcome = "aborted"
              => model = wk[w].startModel /\ current_model_name = wk[w].startMarker
         /\ wk[w].pc = "loaded"
              => /\ current_model_name = wk[w].model_size
                 /\ wk[w].loadCalls = <<>> => model = wk[w].startModel

\* a run that found its model loaded and made no load_model call
C9_Witness ==
    \E w \in Workers : wk[w].pc = "loaded" /\ wk[w].loadCalls = <<>> /\ model # NoModel

\* C10: a failing item is marked Error, nothing else changes and the worker
\* goes on to the next boundary; every item the worker has passed is Done or
\* Error, and a run that left the loop without a stop has passed every item
\* that was queued when the loop began.
C10_PerItemFailure ==
    /\ [](\A w \in Workers :
            /\ wk[w].pc \in LoopPcs \cup {"reset_ui"}
                 => /\ wk[w].index <= Len(queue)
                    /\ \A i \in 1..wk[w].index : queue[i].status \in {"Done", "Error"}
            /\ wk[w].outcome = "complete" => wk[w].index >= wk[w].total)
    /\ [][\A w \in Workers : wk[w].pc = "item" /\ wk'[w] # wk[w]
            => /\ wk'[w].pc = "loop"
               /\ wk'[w].index = wk[w].index + 1
               /\ Len(queue') = Len(queue)
               /\ queue'[wk[w].index + 1].status \in {"Done", "Error"}
               /\ \A j \in 1..Len(queue) :
                    j # wk[w].index + 1 => queue'[j] = queue[j]]_vars

\* the worker transcribing the second item after the first one failed
C10_Witness ==
    \E w \in Workers :
        /\ wk[w].pc = "item" /\ wk[w].index = 1
        /\ queue[1].status = "Error"
        /\ queue[2].tree = "Processing..."

\* C11: a worker that has started a run reaches line 396 and sets
\* is_processing to FALSE, then re-enables the start button, whether the load
\* failed, the loop ran to its end or a stop was raised; no step unloads a
\* loaded model.
C11_RunEnds ==
    /\ \A w \in Workers :
         /\ Running(w) ~> (wk[w].pc = "reset_btn" /\ ~is_processing)
         /\ wk[w].pc = "reset_btn" ~> (wk[w].pc = "reset_rest" /\ btn_start = "normal")
    /\ [][model # NoModel => model' # NoModel]_vars

\* a finished run: flag cleared, start button enabled, model still loaded
C11_Witness ==
    \E w \in Workers :
        /\ wk[w].pc = "reset_rest"
        /\ ~is_processing /\ btn_start = "normal"
        /\ model # NoModel

\* C14: at most one item is being transcribed at a time, by one worker; when
\* an item is in progress every item queued before it has been finished or
\* skipped (it is Done or Error and not in progress), and a worker's index
\* never goes back, so within a run items are transcribed in queue order.
C14_Sequential ==
    /\ [](/\ Cardinality({i \in 1..Len(queue) : queue[i].tree = "Processing..."}) <= 1
          /\ Cardinality({w \in Workers : wk[w].pc = "item"}) <= 1
          /\ \A i \in 1..Len(queue) : queue[i].tree = "Processing..."
               => /\ \E w \in Workers : wk[w].pc = "item" /\ wk[w].index + 1 = i
                  /\ \A j \in 1..(i - 1) :
                       queue[j].status \in {"Done", "Error"} /\ queue[j].tree = queue[j].status)
    /\ [][\A w \in Workers : wk[w].pc \in LoopPcs /\ wk'[w].pc \in LoopPcs
            => wk'[w].index >= wk[w].index]_vars

\* the second item in progress after the first one was finished
C14_Witness ==
    \E w \in Workers :
        /\ wk[w].pc = "item" /\ wk[w].index = 1
        /\ queue[1].status = "Done"
        /\ queue[2].tree = "Processing..." /\ queue[2].status = "Pending"

\* C15 as stated: between the start of a run and line 396 no step of the
\* controlling thread (a step that is not a worker's) changes the queue.
C15_Orig ==
    [][(\E w \in Workers : Running(w)) /\ wk' = wk => queue' = queue]_vars

\* C18 as stated: whenever an item has been started (progress was set at
\* line 346 from index and total), index is below the total captured at
\* line 329.
C18_Orig ==
    \A w \in Workers : wk[w].pc = "item" => wk[w].index < wk[w].total

\* C19 as stated: while an item is transcribed the model is on the device
\* requested for the run, or on cpu when cuda was requested (the fallback).
C19_Orig ==
    \A w \in Workers : wk[w].pc = "item"
        => \/ model.device = wk[w].target_device
           \/ wk[w].target_device = "cuda" /\ model.device = "cpu"

IsDigit(c) == \E k \in 1..10 : DigitChars[k] = c

DigitVal(c) == (CHOOSE k \in 1..10 : DigitChars[k] = c) - 1

RECURSIVE NumVal(_)
NumVal(str) ==
    IF str = <<>> THEN 0
    ELSE 10 * NumVal(SubSeq(str, 1, Len(str) - 1)) + DigitVal(str[Len(str)])

\* the shape DD:DD:DD<marker>DDD
Shape(str) ==
    /\ Len(str) = 12
    /\ \A k \in {1, 2, 4, 5, 7, 8, 10, 11, 12} : IsDigit(str[k])
    /\ str[3] = ":" /\ str[6] = ":"
    /\ str[9] \in Markers

\* C12 as stated: every returned string has the shape DD:DD:DD<marker>DDD.
C12_Orig == ts.out # <<>> => Shape(ts.out)

\* C12 amended: the returned string has the shape DD:DD:DD<marker>DDD, with
\* the marker that was passed, when the rounded input is below 100 hours;
\* from 100 hours on the hour field has three or more digits, the rest of the
\* string keeping its shape.
C12_Shape ==
    ts.out # <<>> =>
        LET n == Len(ts.out)
            tail == SubSeq(ts.out, n - 11, n)
        IN /\ n >= 12
           /\ \A k \in 1..(n - 10) : IsDigit(ts.out[k])
           /\ Shape(<<"0">> \o SubSeq(ts.out, n - 10, n))
           /\ ts.out[n - 3] = ts.marker
           /\ (n = 12) <=> (Round(ts.q) < 100 * MsPerHour)

\* an input just below 100 hours that does not round up
C12_Witness ==
    /\ ts.out = <<"9", "9", ":", "5", "9", ":", "5", "9", ".", "9", "9", "9">>
    /\ ts.q % 4 = 1

\* C17: the fields are in range and add up to the rounded input, the string
\* read back as a number of milliseconds is the rounded input, and the
\* string is the one returned with always_include_hours negated.
C17_Fields ==
    ts.out # <<>> =>
        LET m == Round(ts.q)
            f == Fields(m)
            n == Len(ts.out)
        IN /\ f.mm \in 0..59 /\ f.ss \in 0..59 /\ f.ms \in 0..999
           /\ f.h * 3600000 + f.mm * 60000 + f.ss * 1000 + f.ms = m
           /\ n >= 12
           /\ NumVal(SubSeq(ts.out, 1, n - 10)) * 3600000
                + NumVal(SubSeq(ts.out, n - 8, n - 7)) * 60000
                + NumVal(SubSeq(ts.out, n - 5, n - 4)) * 1000
                + NumVal(SubSeq(ts.out, n - 2, n)) = m
           /\ ts.out = format_timestamp(ts.q, ~ts.always, ts.marker)

\* a call with zero hours and always_include_hours false, rounding up into
\* the next minute
C17_Witness ==
    /\ ts.out = <<"0", "0", ":", "0", "1", ":", "0", "0", ",", "0", "0", "0">>
    /\ ~ts.always
    /\ Round(ts.q) # ts.q \div 4


\* str contains pat as a substring
Contains(str, pat) ==
    \E i \in 1..Len(str) : i + Len(pat) - 1 <= Len(str) /\ SubSeq(str, i, i + Len(pat) - 1) = pat

\* position of the first c in str (0 when there is none)
Find(str, c) ==
    IF \E i \in 1..Len(str) : str[i] = c
    THEN CHOOSE i \in 1..Len(str) : str[i] = c /\ \A j \in 1..(i - 1) : str[j] # c
    ELSE 0

FirstLine(str) == SubSeq(str, 1, Find(str, "\n") - 1)

AfterLine(str) == SubSeq(str, Find(str, "\n") + 1, Len(str))

\* a timestamp read back as a number of milliseconds
ParseTs(str) ==
    LET n == Len(str)
    IN NumVal(SubSeq(str, 1, n - 10)) * 3600000
         + NumVal(SubSeq(str, n - 8, n - 7)) * 60000
         + NumVal(SubSeq(str, n - 5, n - 4)) * 1000
         + NumVal(SubSeq(str, n - 2, n))

\* str is a cue of the segment: a timing line "start --> end" with the given
\* marker whose two timestamps denote the segment's rounded times, then the
\* text, then an empty line
IsCueOf(str, segment, marker) ==
    LET line == FirstLine(str)
        p == Find(line, " ")
        t1 == SubSeq(line, 1, p - 1)
        t2 == SubSeq(line, p + 5, Len(line))
        rest == AfterLine(str)
    IN /\ Find(str, "\n") > 0 /\ p > 0
       /\ SubSeq(line, p, p + 4) = <<" ", "-", "-", ">", " ">>
       /\ Shape(t1) /\ t1[9] = marker /\ ParseTs(t1) = Round(segment.start)
       /\ Shape(t2) /\ t2[9] = marker /\ ParseTs(t2) = Round(segment.end)
       /\ rest = Replace(Strip(segment.text)) \o <<"\n", "\n">>

\* the text lines of a written cue: what follows the timing line, without
\* the two closing newlines
CueText(str) == SubSeq(str, 1, Len(str) - 2)

\* C13 as stated: no cue text written by write_srt or write_vtt contains
\* the substring "-->".
C13_Orig ==
    /\ "srt" \in sub.called =>
          \A k \in 1..Len(sub.srt) : ~Contains(CueText(AfterLine(AfterLine(sub.srt[k]))), Arrow)
    /\ "vtt" \in sub.called =>
          \A k \in 2..Len(sub.vtt) : ~Contains(CueText(AfterLine(sub.vtt[k])), Arrow)

\* C16: write_srt writes one block per segment, in order, the k-th
\* numbered k and carrying the k-th segment's times and text; write_vtt
\* writes the header "WEBVTT" and an empty line, then one cue per segment, in
\* order, with no number line.
C16_Blocks ==
    LET n == Len(sub.segments)
    IN /\ "srt" \in sub.called =>
             /\ Len(sub.srt) = n
             /\ \A k \in 1..n :
                   /\ FirstLine(sub.srt[k]) = Dec(k)
                   /\ IsCueOf(AfterLine(sub.srt[k]), sub.segments[k], ",")
       /\ "vtt" \in sub.called =>
             /\ Len(sub.vtt) = n + 1
             /\ FirstLine(sub.vtt[1]) = <<"W", "E", "B", "V", "T", "T">>
             /\ AfterLine(sub.vtt[1]) = <<"\n">>
             /\ \A k \in 1..n : IsCueOf(sub.vtt[k + 1], sub.segments[k], ".")

\* both writers called on two different segments
C16_Witness ==
    /\ sub.called = {"srt", "vtt"}
    /\ Len(sub.segments) = 2
    /\ sub.segments[1] # sub.segments[2]


\* C20: an item with status Done was transcribed and every format whose
\* checkbox was set when its export test ran has been written; a worker at
\* the Done mark has written all it was asked for; an export step reads the
\* checkbox as it is at that step, and a set checkbox leads either to the
\* file being written or to the item being Error with the rest of the steps
\* and the Done mark skipped; an item becomes Done only at the Done mark.
C20_DoneWritten ==
    /\ [](\A i \in 1..Len(queue) :
            queue[i].status = "Done" => queue[i].ok /\ queue[i].written = queue[i].asked)
    /\ [](\A w \in Workers : wk[w].pc = "mark" => wk[w].written = wk[w].asked)
    /\ [][\A w \in Workers, f \in Formats :
            wk[w].pc = f /\ wk'[w] # wk[w] =>
               LET i == wk[w].index + 1 IN
               IF export[f]
               THEN \/ /\ wk'[w].pc = AfterFormat(f)
                       /\ f \in wk'[w].asked /\ f \in wk'[w].written
                       /\ queue' = queue
                    \/ /\ wk'[w].pc = "loop" /\ wk'[w].index = i
                       /\ queue'[i].status = "Error"
               ELSE /\ wk'[w].pc = AfterFormat(f)
                    /\ f \notin wk'[w].asked
                    /\ queue' = queue]_vars
    /\ [][\A i \in Kept :
            queue[i].status # "Done" /\ queue'[i].status = "Done" =>
               \E w \in Workers :
                  /\ wk[w].pc = "mark" /\ wk[w].index + 1 = i
                  /\ queue'[i].asked = wk[w].asked]_vars

\* a Done item with the VTT file, whose checkbox the user set after
\* start-up, and without the TXT file, whose checkbox is set again by now
C20_Witness ==
    /\ Len(queue) = 1
    /\ queue[1].status = "Done"
    /\ queue[1].written = {"srt", "vtt"}
    /\ export.txt
    /\ \E w \in Workers : wk[w].pc = "loop" /\ wk[w].index = 1


\* C21 as stated: two items with different paths, processed under the same
\* output settings, get different output bases (and so different .srt, .vtt
\* and .txt paths).
C21_Orig == naming.bases # <<>> => naming.bases[1] # naming.bases[2]

====
